---- MODULE Spec2Model ----
(***************************************************************************)
(* Model of the interactive compute agent, job-files/start.js:             *)
(* InteractiveClient (session table, dispatch, eviction) and               *)
(* InteractiveSession (in-flight counter, RUN/KILL, file and artifact      *)
(* tasks, runTask, parseCommand), on Node's run-to-completion scheduling:  *)
(* one macrotask at a time, the microtask queue drained after each.        *)
(***************************************************************************)
EXTENDS Integers, Sequences, FiniteSets, TLC

\* ---------------------------------------------------------------- bounds
MaxMsgs == 2      \* messages received over the connection
MaxChunks == 1    \* output chunks a spawned process writes
MaxLen == 4       \* characters of a command string given to parseCommand alone
MaxRunMsgs == 3   \* messages received when only RUN and KILL are sent

\* ------------------------------------------------------------- vocabulary
SessionIDs == {"s1", "s2"}

RUN == "RUN"
KILL == "KILL"
ADD_ARTIFACT == "ADD_ARTIFACT"
SAVE_ARTIFACT == "SAVE_ARTIFACT"
ADD_FILE == "ADD_FILE"
REMOVE_FILE == "REMOVE_FILE"
SET_ENV == "SET_ENV"
BOGUS == "BOGUS"
COMPLETE == "COMPLETE"
STDOUT == "STDOUT"
STDERR == "STDERR"

TaskKinds == {ADD_ARTIFACT, SAVE_ARTIFACT, ADD_FILE, REMOVE_FILE, SET_ENV}

Undefined == "undefined"
NoQuote == "null"
SQ == "'"
DQ == "\""
SP == " "

\* the exit code of a process ended by a signal (Node passes null)
NullCode == -1
ExitCodes == {0, 1}

\* ------------------------------------------------------------------ paths
\* A path is a sequence of segments; absolute paths are written from "/".
Cwd == <<"ws">>
Dirname == <<"ws">>

RECURSIVE normalize(_, _)
normalize(segs, acc) ==
    IF segs = <<>> THEN acc
    ELSE LET s == Head(segs)
         IN IF s = "." THEN normalize(Tail(segs), acc)
            ELSE IF s = ".."
                 THEN normalize(Tail(segs),
                                IF acc = <<>> THEN acc
                                ELSE SubSeq(acc, 1, Len(acc) - 1))
                 ELSE normalize(Tail(segs), Append(acc, s))

\* path.resolve(p) of a relative path p: against process.cwd()
resolve(p) == normalize(Cwd \o p, <<>>)

RECURSIVE commonLen(_, _)
commonLen(a, b) ==
    IF a = <<>> \/ b = <<>> \/ Head(a) # Head(b) THEN 0
    ELSE 1 + commonLen(Tail(a), Tail(b))

\* path.relative(from, to) of two absolute paths
relative(from, to) ==
    LET n == commonLen(from, to)
    IN [i \in 1..(Len(from) - n) |-> ".."] \o SubSeq(to, n + 1, Len(to))

\* the segments whose text begins with the two characters ".."
DotDotPrefixed == {"..", "..f"}

\* String.startsWith('..') of the joined relative path
startsWithDotDot(rel) == rel # <<>> /\ rel[1] \in DotDotPrefixed

\* the test made on the text of the path as given, not on where it resolves
ensureValidPathUnresolved(filepath) == startsWithDotDot(filepath)

\* ensureValidPath(filepath): TRUE when it throws
ensureValidPathThrows(filepath) ==
    startsWithDotDot(relative(normalize(Dirname, <<>>), resolve(filepath)))

\* path.dirname(filepath).split(path.sep)
dirnameSplit(filepath) ==
    IF Len(filepath) <= 1 THEN <<".">>
    ELSE SubSeq(filepath, 1, Len(filepath) - 1)

\* ----------------------------------------------------------- parseCommand
\* the loop with a quote closed by either quote character
RECURSIVE parseLoopAnyQuoteCloses(_, _, _, _)
parseLoopAnyQuoteCloses(cmd, i, chunks, quoteChar) ==
    IF i > Len(cmd) THEN chunks
    ELSE LET letter == cmd[i]
             isQuoteChar == letter = DQ \/ letter = SQ
             isInQuotes == quoteChar # NoQuote
         IN IF ~isInQuotes /\ isQuoteChar
            THEN parseLoopAnyQuoteCloses(cmd, i + 1, chunks, letter)
            ELSE IF isInQuotes /\ isQuoteChar
            THEN parseLoopAnyQuoteCloses(cmd, i + 1, chunks, NoQuote)
            ELSE IF letter = SP /\ ~isInQuotes
            THEN parseLoopAnyQuoteCloses(cmd, i + 1, Append(chunks, <<>>), quoteChar)
            ELSE parseLoopAnyQuoteCloses(cmd, i + 1,
                           [chunks EXCEPT ![Len(chunks)] = Append(@, letter)],
                           quoteChar)

RECURSIVE parseLoop(_, _, _, _)
parseLoop(cmd, i, chunks, quoteChar) ==
    IF i > Len(cmd) THEN chunks
    ELSE LET letter == cmd[i]
             isQuoteChar == letter = DQ \/ letter = SQ
             isInQuotes == quoteChar # NoQuote
         IN IF ~isInQuotes /\ isQuoteChar
            THEN parseLoop(cmd, i + 1, chunks, letter)
            ELSE IF quoteChar = letter
            THEN parseLoop(cmd, i + 1, chunks, NoQuote)
            ELSE IF letter = SP /\ ~isInQuotes
            THEN parseLoop(cmd, i + 1, Append(chunks, <<>>), quoteChar)
            ELSE parseLoop(cmd, i + 1,
                           [chunks EXCEPT ![Len(chunks)] = Append(@, letter)],
                           quoteChar)

parseCommand(cmd) == parseLoop(cmd, 1, << <<>> >>, NoQuote)

\* child_process.spawn(file, args) throws synchronously on an empty file name
spawnThrows(argv) == argv[1] = <<>>

\* ------------------------------------------------------------------ inputs
Commands == { <<>>, <<"e", SP, SQ, "a", SP, "b", SQ>> }
InputPaths == { <<"sub", "f">>, <<"..", "out">>, <<"sub", "..", "..", "out">>, <<"..f">> }
Contents == {"x"}
EnvNames == {"V"}
ArtifactNames == {"art"}
SavePaths == { <<"..", "out">> }

\* ------------------------------------------------------------------- state
VARIABLES
    sessions,    \* InteractiveClient.sessions: sessionID -> session object (0: no key)
    objs,        \* the InteractiveSession objects, named by the message that made them
    calls,       \* one InteractiveClient.onMessage call per received message
    microtasks,  \* the promise-job queue, FIFO
    procs,       \* spawned child processes, named by the RUN message
    writes,      \* the writeFile promises ADD_FILE starts and leaves unawaited
    files,       \* file system: absolute path -> content
    dirs,        \* file system: the directories
    env,         \* process.env
    sent,        \* what ws.send was given, in order
    unhandled,   \* rejected promises nobody handles
    syncBurst,   \* more 'message' events of the same socket chunk may follow
    limit,       \* how many messages the connection delivers
    parsed       \* a command string and what parseCommand made of it

vars == <<sessions, objs, calls, microtasks, procs, writes, files, dirs, env,
          sent, unhandled, syncBurst, limit, parsed>>

\* no command string under study
NoParse == [cmd |-> <<>>, done |-> FALSE, chunks |-> <<>>]

\* the agent after `new InteractiveClient(ID, SERVER_URL)` and connect()
Started ==
    /\ sessions = [sid \in SessionIDs |-> 0]
    /\ objs = <<>>
    /\ calls = <<>>
    /\ microtasks = <<>>
    /\ procs = <<>>
    /\ writes = <<>>
    /\ files = (<<"out">> :> "o")
    /\ dirs = {<<>>, Cwd}
    /\ env = [n \in EnvNames |-> Undefined]
    /\ sent = <<>>
    /\ unhandled = {}
    /\ syncBurst = FALSE

Init ==
    /\ Started
    /\ limit = MaxMsgs
    /\ parsed = NoParse

\* ------------------------------------------------- InteractiveSession parts
\* constructor
NewSession(sid) == [sessionID |-> sid, activeMsgCount |-> 0, subprocess |-> 0]

\* every message tagged with one id kept for the whole connection
sendMessageConnectionTag(out, sid, type, data, of) ==
    Append(out, [sessionID |-> "s1", type |-> type, data |-> data, of |-> of])

\* sendMessage(type, data); "of" is not sent: it names the message or process
\* the call was made for
sendMessage(out, sid, type, data, of) ==
    Append(out, [sessionID |-> sid, type |-> type, data |-> data, of |-> of])

\* onTaskComplete(...arguments): the COMPLETE it sends
completeSent(out, ob, o, data, of) ==
    sendMessage(out, ob[o].sessionID, COMPLETE, data, of)

\* onTaskComplete without the decrement
completeCountKept(ob, o) == ob

\* onTaskComplete(...arguments): this.activeMsgCount--
completeCount(ob, o) == [ob EXCEPT ![o].activeMsgCount = @ - 1]

\* runTask whose catch does not set the exit code
runTaskReportNoCatch(outcome, result) == <<0, IF outcome = "resolved" THEN result ELSE Undefined>>

\* runTask after fn has settled: the arguments of onTaskComplete
runTaskReport(outcome, result) ==
    IF outcome = "resolved" THEN <<0, result>> ELSE <<1, Undefined>>

\* --------------------------------------------------- InteractiveClient parts
\* onMessage, lines 26-29: the session for sid, made when there is none
lookup(sid, m) == IF sessions[sid] # 0 THEN sessions[sid] ELSE m

sessionsAfterLookup(sid, m) == [sessions EXCEPT ![sid] = lookup(sid, m)]

\* the lookup with the count left for the task to raise when it starts
objsAfterEntryUncounted(sid, m) ==
    IF sessions[sid] # 0 THEN objs ELSE (m :> NewSession(sid)) @@ objs

\* the session objects after the lookup and the activeMsgCount++ of dispatch
objsAfterEntry(sid, m) ==
    LET o == lookup(sid, m)
        base == IF sessions[sid] # 0 THEN objs ELSE (m :> NewSession(sid)) @@ objs
    IN [base EXCEPT ![o].activeMsgCount = @ + 1]

\* eviction that does not look at the count
evictsAfterEveryMessage(ob, o) == TRUE

\* the eviction test of line 32
evicts(ob, o) == ob[o].activeMsgCount = 0

\* the count of the session of sid before dispatch (0 for a new session)
countBefore(sid) ==
    IF sessions[sid] # 0 THEN objs[sessions[sid]].activeMsgCount ELSE 0

\* a call of InteractiveClient.onMessage; pc is where it stands, fnOutcome and
\* result what the function given to runTask did, pre the count before dispatch,
\* at how much had been sent when the message arrived, trail the files the
\* task has finished writing, in order
Call(sid, type, data, o, pc, outcome, result) ==
    [sessionID |-> sid, type |-> type, data |-> data, obj |-> o, pc |-> pc,
     fnOutcome |-> outcome, result |-> result, pre |-> countBefore(sid),
     at |-> Len(sent), trail |-> <<>>]

Job(m, hop) == [m |-> m, hop |-> hop]

NextMsg == Len(calls) + 1

\* a 'message' event: a macrotask of its own, or the next frame of the chunk
\* whose frames the socket is emitting in one synchronous run
CanReceive == Len(calls) < limit /\ (microtasks = <<>> \/ syncBurst)

\* an I/O or process event: a macrotask, after the microtask queue has drained
CanRunEvent == microtasks = <<>>

\* ------------------------------------------------------- dispatch, by kind
\* the reference kept only when the session has none
trackFirstOnly(ob, o, m) ==
    IF ob[o].subprocess = 0 THEN [ob EXCEPT ![o].subprocess = m] ELSE ob

\* this.subprocess = spawn(cmd, opts), line 59
track(ob, o, m) == [ob EXCEPT ![o].subprocess = m]

\* RUN, lines 57-62
ReceiveRun(sid, cmd) ==
    /\ CanReceive
    /\ LET m == NextMsg
           o == lookup(sid, m)
           ob == objsAfterEntry(sid, m)
           argv == parseCommand(cmd)
       IN /\ sessions' = sessionsAfterLookup(sid, m)
          /\ IF spawnThrows(argv)
             THEN /\ objs' = ob
                  /\ procs' = procs
                  /\ calls' = Append(calls, Call(sid, RUN, <<cmd>>, o, "queued", "none", Undefined))
                  /\ microtasks' = Append(microtasks, Job(m, "clientReject"))
             ELSE /\ objs' = track(ob, o, m)
                  /\ procs' = (m :> [obj |-> o, argv |-> argv, state |-> "running",
                                     chunks |-> 0, killed |-> FALSE, killCalls |-> 0,
                                     exit |-> <<>>]) @@ procs
                  /\ calls' = Append(calls, Call(sid, RUN, <<cmd>>, o, "queued", "none", Undefined))
                  /\ microtasks' = Append(microtasks, Job(m, "client"))
    /\ syncBurst' = TRUE
    /\ UNCHANGED <<writes, files, dirs, env, sent, unhandled, limit, parsed>>

\* subprocess.kill() of line 65
kill(pr, p) ==
    [pr EXCEPT ![p].killed = @ \/ pr[p].state = "running", ![p].killCalls = @ + 1]

\* KILL, lines 63-66
ReceiveKill(sid) ==
    /\ CanReceive
    /\ LET m == NextMsg
           o == lookup(sid, m)
           ob == objsAfterEntry(sid, m)
       IN /\ sessions' = sessionsAfterLookup(sid, m)
          /\ objs' = ob
          /\ procs' = IF ob[o].subprocess # 0 THEN kill(procs, ob[o].subprocess) ELSE procs
          /\ calls' = Append(calls, Call(sid, KILL, <<>>, o, "queued", "none", Undefined))
          /\ microtasks' = Append(microtasks, Job(m, "client"))
    /\ syncBurst' = TRUE
    /\ UNCHANGED <<writes, files, dirs, env, sent, unhandled, limit, parsed>>

\* ADD_ARTIFACT, lines 67-70: up to the await of mkdirp
ReceiveAddArtifact(sid, name) ==
    /\ CanReceive
    /\ LET m == NextMsg
           o == lookup(sid, m)
       IN /\ sessions' = sessionsAfterLookup(sid, m)
          /\ objs' = objsAfterEntry(sid, m)
          /\ calls' = Append(calls, Call(sid, ADD_ARTIFACT, <<name>>, o, "mkdirp", "none", Undefined))
    /\ syncBurst' = TRUE
    /\ UNCHANGED <<microtasks, procs, writes, files, dirs, env, sent, unhandled, limit, parsed>>

\* SAVE_ARTIFACT, lines 82-84: up to the await of getStorageAdapters
ReceiveSaveArtifact(sid, filepath, name) ==
    /\ CanReceive
    /\ LET m == NextMsg
           o == lookup(sid, m)
       IN /\ sessions' = sessionsAfterLookup(sid, m)
          /\ objs' = objsAfterEntry(sid, m)
          /\ calls' = Append(calls, Call(sid, SAVE_ARTIFACT, <<filepath, name>>, o, "getStorage", "none", Undefined))
    /\ syncBurst' = TRUE
    /\ UNCHANGED <<microtasks, procs, writes, files, dirs, env, sent, unhandled, limit, parsed>>

\* ADD_FILE, lines 93-98, with runTask up to its await: the function given to
\* runTask is not async and does not return the promise of writeFile. When
\* ensureValidPath throws, runTask catches and reports in the same run.
ReceiveAddFile(sid, filepath, content) ==
    /\ CanReceive
    /\ LET m == NextMsg
           o == lookup(sid, m)
           ob == objsAfterEntry(sid, m)
       IN /\ sessions' = sessionsAfterLookup(sid, m)
          /\ IF ensureValidPathThrows(filepath)
             THEN /\ sent' = completeSent(sent, ob, o, runTaskReport("threw", Undefined), m)
                  /\ objs' = completeCount(ob, o)
                  /\ writes' = writes
                  /\ calls' = Append(calls, Call(sid, ADD_FILE, <<filepath, content>>, o, "queued", "threw", Undefined))
                  /\ microtasks' = Append(microtasks, Job(m, "session"))
             ELSE /\ sent' = sent
                  /\ objs' = ob
                  /\ writes' = (m :> [stage |-> "mkdirp"]) @@ writes
                  /\ calls' = Append(calls, Call(sid, ADD_FILE, <<filepath, content>>, o, "queued", "resolved", Undefined))
                  /\ microtasks' = Append(microtasks, Job(m, "runTask"))
    /\ syncBurst' = TRUE
    /\ UNCHANGED <<procs, files, dirs, env, unhandled, limit, parsed>>

\* SET_ENV, lines 99-103, with runTask up to its await
ReceiveSetEnv(sid, name, value) ==
    /\ CanReceive
    /\ LET m == NextMsg
           o == lookup(sid, m)
       IN /\ sessions' = sessionsAfterLookup(sid, m)
          /\ objs' = objsAfterEntry(sid, m)
          /\ env' = [env EXCEPT ![name] = value]
          /\ calls' = Append(calls, Call(sid, SET_ENV, <<name, value>>, o, "queued", "resolved", Undefined))
          /\ microtasks' = Append(microtasks, Job(m, "runTask"))
    /\ syncBurst' = TRUE
    /\ UNCHANGED <<procs, writes, files, dirs, sent, unhandled, limit, parsed>>

\* REMOVE_FILE, lines 104-109, with runTask up to its await: the function is
\* async, so a throw of ensureValidPath is a rejected promise
ReceiveRemoveFile(sid, filepath) ==
    /\ CanReceive
    /\ LET m == NextMsg
           o == lookup(sid, m)
       IN /\ sessions' = sessionsAfterLookup(sid, m)
          /\ objs' = objsAfterEntry(sid, m)
          /\ IF ensureValidPathThrows(filepath)
             THEN /\ calls' = Append(calls, Call(sid, REMOVE_FILE, <<filepath>>, o, "queued", "rejected", Undefined))
                  /\ microtasks' = Append(microtasks, Job(m, "runTask"))
             ELSE /\ calls' = Append(calls, Call(sid, REMOVE_FILE, <<filepath>>, o, "unlink", "none", Undefined))
                  /\ microtasks' = microtasks
    /\ syncBurst' = TRUE
    /\ UNCHANGED <<procs, writes, files, dirs, env, sent, unhandled, limit, parsed>>

\* the else branch reporting as a failed task does
unknownReportAsFailure == <<1, Undefined>>

\* the exit code of the else branch, line 111
unknownReport == <<2>>

\* any other type, lines 110-112
ReceiveUnknown(sid) ==
    /\ CanReceive
    /\ LET m == NextMsg
           o == lookup(sid, m)
           ob == objsAfterEntry(sid, m)
       IN /\ sessions' = sessionsAfterLookup(sid, m)
          /\ sent' = completeSent(sent, ob, o, unknownReport, m)
          /\ objs' = completeCount(ob, o)
          /\ calls' = Append(calls, Call(sid, BOGUS, <<>>, o, "queued", "none", Undefined))
          /\ microtasks' = Append(microtasks, Job(m, "client"))
    /\ syncBurst' = TRUE
    /\ UNCHANGED <<procs, writes, files, dirs, env, unhandled, limit, parsed>>

\* -------------------------------------------------------------- microtasks
HeadIs(hop) == microtasks # <<>> /\ Head(microtasks).hop = hop

\* runTask resumes after `await fn()`, lines 136-141, and reports
ResumeRunTask ==
    /\ HeadIs("runTask")
    /\ LET m == Head(microtasks).m
           c == calls[m]
       IN /\ sent' = completeSent(sent, objs, c.obj, runTaskReport(c.fnOutcome, c.result), m)
          /\ objs' = completeCount(objs, c.obj)
          /\ microtasks' = Append(Tail(microtasks), Job(m, "session"))
    /\ syncBurst' = FALSE
    /\ UNCHANGED <<sessions, calls, procs, writes, files, dirs, env, unhandled, limit, parsed>>

\* InteractiveSession.onMessage resumes after `await this.runTask(...)` and returns
ResumeSession ==
    /\ HeadIs("session")
    /\ microtasks' = Append(Tail(microtasks), Job(Head(microtasks).m, "client"))
    /\ syncBurst' = FALSE
    /\ UNCHANGED <<sessions, objs, calls, procs, writes, files, dirs, env, sent, unhandled, limit, parsed>>

\* InteractiveClient.onMessage resumes after its await, lines 32-34; reading
\* activeMsgCount of a key that is gone is a TypeError, which rejects the call
ResumeClient ==
    /\ HeadIs("client")
    /\ LET m == Head(microtasks).m
           sid == calls[m].sessionID
       IN IF sessions[sid] = 0
          THEN /\ calls' = [calls EXCEPT ![m].pc = "rejected"]
               /\ unhandled' = unhandled \cup {<<m, "TypeError">>}
               /\ sessions' = sessions
          ELSE /\ calls' = [calls EXCEPT ![m].pc = "done"]
               /\ unhandled' = unhandled
               /\ sessions' = IF evicts(objs, sessions[sid])
                              THEN [sessions EXCEPT ![sid] = 0]
                              ELSE sessions
    /\ microtasks' = Tail(microtasks)
    /\ syncBurst' = FALSE
    /\ UNCHANGED <<objs, procs, writes, files, dirs, env, sent, limit, parsed>>

\* InteractiveSession.onMessage rejected (a throw outside runTask): the await of
\* line 31 throws and the call of InteractiveClient.onMessage rejects
RejectClient ==
    /\ HeadIs("clientReject")
    /\ LET m == Head(microtasks).m
       IN /\ calls' = [calls EXCEPT ![m].pc = "rejected"]
          /\ unhandled' = unhandled \cup {<<m, "onMessage">>}
    /\ microtasks' = Tail(microtasks)
    /\ syncBurst' = FALSE
    /\ UNCHANGED <<sessions, objs, procs, writes, files, dirs, env, sent, limit, parsed>>

\* ---------------------------------------------------------- process events
\* a 'data' event of stdout or stderr, lines 61-62. The streams of a child may
\* still be open when 'exit' is emitted, so a chunk can come after the exit.
ProcData(p, stream) ==
    /\ CanRunEvent
    /\ p \in DOMAIN procs
    /\ procs[p].chunks < MaxChunks
    /\ procs' = [procs EXCEPT ![p].chunks = @ + 1]
    /\ sent' = sendMessage(sent, objs[procs[p].obj].sessionID, stream, "chunk", p)
    /\ syncBurst' = FALSE
    /\ UNCHANGED <<sessions, objs, calls, microtasks, writes, files, dirs, env, unhandled, limit, parsed>>

\* the codes the 'exit' event may carry
exitCodesOf(pr) == IF pr.killed THEN ExitCodes \cup {NullCode} ELSE ExitCodes

\* the exit handler reporting any non-zero code as a failed task
exitReportAsFailure(code) == <<IF code = 0 THEN 0 ELSE 1>>

\* the arguments the 'exit' handler gives onTaskComplete, line 60
exitReport(code) == <<code>>

\* the 'exit' event, line 60; exit keeps the code the event carried
ProcExit(p, code) ==
    /\ CanRunEvent
    /\ p \in DOMAIN procs
    /\ procs[p].state = "running"
    /\ code \in exitCodesOf(procs[p])
    /\ procs' = [procs EXCEPT ![p].state = "exited", ![p].exit = <<code>>]
    /\ sent' = completeSent(sent, objs, procs[p].obj, exitReport(code), p)
    /\ objs' = completeCount(objs, procs[p].obj)
    /\ syncBurst' = FALSE
    /\ UNCHANGED <<sessions, calls, microtasks, writes, files, dirs, env, unhandled, limit, parsed>>

\* ------------------------------------------------------------- file system
\* the directories mkdirp(...list) makes, in order: path.join from process.cwd()
mkdirpTargets(list) ==
    [i \in 1..Len(list) |-> normalize(Cwd \o SubSeq(list, 1, i), <<>>)]

\* mkdirp(...list), lines 182-195: k directories are passed before fsp.mkdir
\* fails with something other than EEXIST; k = Len(list) is success. A
\* directory that exists gives EEXIST, which is swallowed.
mkdirpOutcomes(list, ds) ==
    {k \in 0..Len(list) : k = Len(list) \/ mkdirpTargets(list)[k + 1] \notin ds}

mkdirpDirs(list, ds, k) == ds \cup {mkdirpTargets(list)[i] : i \in 1..k}

\* fsp.writeFile(path, content) that succeeds
written(fs, filepath, content) == (resolve(filepath) :> content) @@ fs

\* fsp.writeFile can succeed only into a directory that exists
canWrite(ds, filepath) == resolve(dirnameSplit(filepath)) \in ds

\* fsp.unlink(path) that succeeds
unlinked(fs, filepath) ==
    [q \in DOMAIN fs \ {resolve(filepath)} |-> fs[q]]

\* writeFile, lines 127-128, of the promise ADD_FILE left behind
WriteFileMkdirp(m, k) ==
    /\ CanRunEvent
    /\ m \in DOMAIN writes
    /\ writes[m].stage = "mkdirp"
    /\ LET list == dirnameSplit(calls[m].data[1])
       IN /\ k \in mkdirpOutcomes(list, dirs)
          /\ dirs' = mkdirpDirs(list, dirs, k)
          /\ IF k = Len(list)
             THEN /\ writes' = [writes EXCEPT ![m].stage = "write"]
                  /\ unhandled' = unhandled
             ELSE /\ writes' = [writes EXCEPT ![m].stage = "failed"]
                  /\ unhandled' = unhandled \cup {<<m, "writeFile">>}
    /\ syncBurst' = FALSE
    /\ UNCHANGED <<sessions, objs, calls, microtasks, procs, files, env, sent, limit, parsed>>

\* writeFile, line 129, of the promise ADD_FILE left behind
WriteFileWrite(m, ok) ==
    /\ CanRunEvent
    /\ m \in DOMAIN writes
    /\ writes[m].stage = "write"
    /\ ok => canWrite(dirs, calls[m].data[1])
    /\ IF ok
       THEN /\ files' = written(files, calls[m].data[1], calls[m].data[2])
            /\ writes' = [writes EXCEPT ![m].stage = "done"]
            /\ unhandled' = unhandled
       ELSE /\ files' = files
            /\ writes' = [writes EXCEPT ![m].stage = "failed"]
            /\ unhandled' = unhandled \cup {<<m, "writeFile">>}
    /\ syncBurst' = FALSE
    /\ UNCHANGED <<sessions, objs, calls, microtasks, procs, dirs, env, sent, limit, parsed>>

\* fsp.unlink of line 108 finishes; the function given to runTask settles
Unlink(m) ==
    /\ CanRunEvent
    /\ m \in DOMAIN calls
    /\ calls[m].pc = "unlink"
    /\ LET filepath == calls[m].data[1]
           ok == resolve(filepath) \in DOMAIN files
       IN /\ files' = IF ok THEN unlinked(files, filepath) ELSE files
          /\ calls' = [calls EXCEPT ![m].pc = "queued",
                                    ![m].fnOutcome = IF ok THEN "resolved" ELSE "rejected"]
    /\ microtasks' = Append(microtasks, Job(m, "runTask"))
    /\ syncBurst' = FALSE
    /\ UNCHANGED <<sessions, objs, procs, writes, dirs, env, sent, unhandled, limit, parsed>>

\* ---------------------------------------------------------------- artifacts
artifactDirs(name) == <<"artifacts", name>>
dataPath(name) == artifactDirs(name) \o <<"data">>
initPath(name) == artifactDirs(name) \o <<"__init__.py">>

\* initFile(name, type), lines 197-206
initFile(name) == <<"init", name>>

\* the function given to runTask settles: runTask resumes in a microtask
settle(m, outcome, result) ==
    /\ calls' = [calls EXCEPT ![m].pc = "queued", ![m].fnOutcome = outcome,
                              ![m].result = result]
    /\ microtasks' = Append(microtasks, Job(m, "runTask"))

\* InteractiveSession.onMessage throws outside runTask
escape(m) ==
    /\ calls' = [calls EXCEPT ![m].pc = "queued"]
    /\ microtasks' = Append(microtasks, Job(m, "clientReject"))

goto(m, pc) ==
    /\ calls' = [calls EXCEPT ![m].pc = pc]
    /\ microtasks' = microtasks

At(m, pc) == CanRunEvent /\ m \in DOMAIN calls /\ calls[m].pc = pc

\* `await mkdirp(...dirs)` of line 70 finishes
ArtifactMkdirp(m, k) ==
    /\ At(m, "mkdirp")
    /\ LET list == artifactDirs(calls[m].data[1])
       IN /\ k \in mkdirpOutcomes(list, dirs)
          /\ dirs' = mkdirpDirs(list, dirs, k)
          /\ IF k = Len(list) THEN goto(m, "getStorage") ELSE escape(m)
    /\ syncBurst' = FALSE
    /\ UNCHANGED <<sessions, objs, procs, writes, files, env, sent, unhandled, limit, parsed>>

\* `await getStorageAdapters()` of lines 71 and 84 finishes; on success runTask
\* starts the function, which awaits Storage.getClient
StorageLoaded(m, ok) ==
    /\ At(m, "getStorage")
    /\ IF ok THEN goto(m, "getClient") ELSE escape(m)
    /\ syncBurst' = FALSE
    /\ UNCHANGED <<sessions, objs, procs, writes, files, dirs, env, sent, unhandled, limit, parsed>>

\* `await Storage.getClient(...)` of lines 73 and 86 finishes
GetClient(m, ok) ==
    /\ At(m, "getClient")
    /\ IF ok
       THEN goto(m, IF calls[m].type = ADD_ARTIFACT THEN "getFileStream" ELSE "putFileStream")
       ELSE settle(m, "rejected", Undefined)
    /\ syncBurst' = FALSE
    /\ UNCHANGED <<sessions, objs, procs, writes, files, dirs, env, sent, unhandled, limit, parsed>>

\* the stream started and not awaited: the descriptor is written next
afterStreamUnawaited == "writeInit"

\* what fetchArtifact awaits once it has the stream, line 76
afterStream == "pipeline"

\* `await client.getFileStream(dataInfo)` of line 75 finishes
GetFileStream(m, ok) ==
    /\ At(m, "getFileStream")
    /\ IF ok THEN goto(m, afterStream) ELSE settle(m, "rejected", Undefined)
    /\ syncBurst' = FALSE
    /\ UNCHANGED <<sessions, objs, procs, writes, files, dirs, env, sent, unhandled, limit, parsed>>

\* `await pipeline(stream, fs.createWriteStream(dataPath))` of line 76 finishes;
\* a stream that fails leaves what it had written
Pipeline(m, ok) ==
    /\ At(m, "pipeline")
    /\ LET name == calls[m].data[1]
       IN IF ok
          THEN /\ files' = written(files, dataPath(name), "bytes")
               /\ calls' = [calls EXCEPT ![m].pc = "writeInit",
                                         ![m].trail = Append(@, "data")]
               /\ microtasks' = microtasks
          ELSE /\ files' = written(files, dataPath(name), "partial")
               /\ settle(m, "rejected", Undefined)
    /\ syncBurst' = FALSE
    /\ UNCHANGED <<sessions, objs, procs, writes, dirs, env, sent, unhandled, limit, parsed>>

\* `await fsp.writeFile(filePath, initFile(name, type))` of line 78 finishes
WriteInit(m, ok) ==
    /\ At(m, "writeInit")
    /\ LET name == calls[m].data[1]
       IN IF ok
          THEN /\ files' = written(files, initPath(name), initFile(name))
               /\ calls' = [calls EXCEPT ![m].pc = "queued",
                                         ![m].fnOutcome = "resolved",
                                         ![m].trail = Append(@, "init")]
               /\ microtasks' = Append(microtasks, Job(m, "runTask"))
          ELSE /\ files' = files
               /\ settle(m, "rejected", Undefined)
    /\ syncBurst' = FALSE
    /\ UNCHANGED <<sessions, objs, procs, writes, dirs, env, sent, unhandled, limit, parsed>>

\* `await client.putFileStream(name, stream)` of line 88 finishes; the stream
\* of a file that does not exist fails
PutFileStream(m, ok) ==
    /\ At(m, "putFileStream")
    /\ ok => resolve(calls[m].data[1]) \in DOMAIN files
    /\ IF ok THEN settle(m, "resolved", "dataInfo") ELSE settle(m, "rejected", Undefined)
    /\ syncBurst' = FALSE
    /\ UNCHANGED <<sessions, objs, procs, writes, files, dirs, env, sent, unhandled, limit, parsed>>

\* ------------------------------------------------------------ specification
Msgs == 1..MaxMsgs

Next ==
    \/ \E sid \in SessionIDs : ReceiveKill(sid)
    \/ \E sid \in SessionIDs, cmd \in Commands : ReceiveRun(sid, cmd)
    \/ \E sid \in SessionIDs, name \in ArtifactNames : ReceiveAddArtifact(sid, name)
    \/ \E sid \in SessionIDs, f \in SavePaths, name \in ArtifactNames :
          ReceiveSaveArtifact(sid, f, name)
    \/ \E sid \in SessionIDs, f \in InputPaths, c \in Contents : ReceiveAddFile(sid, f, c)
    \/ \E sid \in SessionIDs, n \in EnvNames, v \in Contents : ReceiveSetEnv(sid, n, v)
    \/ \E sid \in SessionIDs, f \in InputPaths : ReceiveRemoveFile(sid, f)
    \/ \E sid \in SessionIDs : ReceiveUnknown(sid)
    \/ ResumeRunTask
    \/ ResumeSession
    \/ ResumeClient
    \/ RejectClient
    \/ \E p \in Msgs, stream \in {STDOUT, STDERR} : ProcData(p, stream)
    \/ \E p \in Msgs, code \in ExitCodes \cup {NullCode} : ProcExit(p, code)
    \/ \E m \in Msgs, k \in 0..2 : WriteFileMkdirp(m, k)
    \/ \E m \in Msgs, ok \in BOOLEAN : WriteFileWrite(m, ok)
    \/ \E m \in Msgs : Unlink(m)
    \/ \E m \in Msgs, k \in 0..2 : ArtifactMkdirp(m, k)
    \/ \E m \in Msgs, ok \in BOOLEAN : StorageLoaded(m, ok)
    \/ \E m \in Msgs, ok \in BOOLEAN : GetClient(m, ok)
    \/ \E m \in Msgs, ok \in BOOLEAN : GetFileStream(m, ok)
    \/ \E m \in Msgs, ok \in BOOLEAN : Pipeline(m, ok)
    \/ \E m \in Msgs, ok \in BOOLEAN : WriteInit(m, ok)
    \/ \E m \in Msgs, ok \in BOOLEAN : PutFileStream(m, ok)

Spec == Init /\ [][Next]_vars

\* ------------------------------------------------------------------ claims
Received == 1..Len(calls)

\* the places in `sent` of the COMPLETE messages of message m
Completes(m) == {i \in 1..Len(sent) : sent[i].type = COMPLETE /\ sent[i].of = m}

\* the data of those messages
Reports(m) == {sent[i].data : i \in Completes(m)}

Ended(m) == calls[m].pc \in {"done", "rejected"}

\* nothing is left to run: no promise job, no call in progress, no I/O in
\* flight, no process alive
Quiescent ==
    /\ microtasks = <<>>
    /\ \A m \in Received : Ended(m)
    /\ \A p \in DOMAIN procs : procs[p].state = "exited"
    /\ \A m \in DOMAIN writes : writes[m].stage \in {"done", "failed"}

NoClientCallInProgress == \A m \in Received : Ended(m)

\* C1: once every process has exited and every I/O has finished, each message
\* received has exactly one COMPLETE
C1_ExactlyOneComplete ==
    Quiescent => \A m \in Received : Cardinality(Completes(m)) = 1

\* C2: while no InteractiveClient.onMessage call is in progress, a session id is
\* a key of sessions exactly when its session's activeMsgCount is not zero
C2_KeyIffCounting ==
    NoClientCallInProgress =>
        \A sid \in SessionIDs :
            /\ sessions[sid] # 0 => objs[sessions[sid]].activeMsgCount # 0
            /\ \A o \in DOMAIN objs :
                  (objs[o].sessionID = sid /\ objs[o].activeMsgCount # 0)
                      => sessions[sid] = o

\* C3: a KILL has its COMPLETE as soon as its dispatch has returned, and its
\* dispatch does not raise
C3_KillCompletes ==
    \A m \in Received :
        calls[m].type = KILL =>
            /\ Cardinality(Completes(m)) = 1
            /\ <<m, "onMessage">> \notin unhandled

\* the function given to runTask has settled and runTask has gone on to report
RunTaskDone(m) ==
    /\ calls[m].fnOutcome # "none"
    /\ \A i \in 1..Len(microtasks) : microtasks[i] # Job(m, "runTask")

\* the operation of a task message failed: its function threw or rejected, the
\* write it started failed, or the dispatch itself threw
TaskFailed(m) ==
    \/ calls[m].fnOutcome \in {"threw", "rejected"}
    \/ m \in DOMAIN writes /\ writes[m].stage = "failed"
    \/ <<m, "onMessage">> \in unhandled

Settled(m) ==
    /\ Ended(m)
    /\ m \in DOMAIN writes => writes[m].stage \in {"done", "failed"}

\* C4: a task message whose operation failed has one COMPLETE, with code 1 and
\* no result, and leaves no rejected promise behind
C4_FailureIsCodeOne ==
    \A m \in Received :
        (calls[m].type \in TaskKinds /\ Settled(m) /\ TaskFailed(m)) =>
            /\ Cardinality(Completes(m)) = 1
            /\ Reports(m) = {<<1, Undefined>>}
            /\ \A u \in unhandled : u[1] # m

\* the step receives a message of an unknown type
ReceivesUnknown ==
    /\ Len(calls') = Len(calls) + 1
    /\ calls'[Len(calls')].type = BOGUS

\* C5: the dispatch of a message of an unknown type sends one COMPLETE with
\* code 2 and no result, returns without raising and without suspending, and
\* leaves the session's count as it was before the message; that COMPLETE
\* stays the only one of the message
C5_UnknownIsCodeTwo ==
    /\ [](\A m \in Received :
             calls[m].type = BOGUS =>
                 /\ Cardinality(Completes(m)) = 1
                 /\ Reports(m) = {<<2>>}
                 /\ <<m, "onMessage">> \notin unhandled)
    /\ [][ReceivesUnknown =>
          LET m == Len(calls')
              c == calls'[m]
          IN /\ sent' = Append(sent, [sessionID |-> c.sessionID, type |-> COMPLETE,
                                      data |-> <<2>>, of |-> m])
             /\ objs'[c.obj].activeMsgCount = c.pre
             /\ microtasks' = Append(microtasks, Job(m, "client"))
             /\ unhandled' = unhandled]_vars

C5_Witness ==
    \E m \in Received :
        calls[m].type = BOGUS /\ calls[m].pre > 0 /\ Cardinality(Completes(m)) = 1

\* C6: runTask reports once, when the function has settled and not before: code
\* 0 with the function's value when it resolved, code 1 with no result when it
\* threw or rejected; and the error does not leave runTask
C6_RunTaskReportsOnce ==
    \A m \in Received :
        calls[m].type \in TaskKinds =>
            IF RunTaskDone(m)
            THEN /\ Cardinality(Completes(m)) = 1
                 /\ Reports(m) = { IF calls[m].fnOutcome = "resolved"
                                   THEN <<0, calls[m].result>>
                                   ELSE <<1, Undefined>> }
                 /\ <<m, "onMessage">> \notin unhandled
            ELSE Completes(m) = {}

C6_Witness ==
    \E a, b \in Received :
        /\ RunTaskDone(a) /\ calls[a].fnOutcome = "resolved" /\ calls[a].result = "dataInfo"
        /\ RunTaskDone(b) /\ calls[b].fnOutcome \in {"threw", "rejected"}

\* C7: no STDOUT or STDERR message of a process comes after the COMPLETE of
\* its RUN
C7_OutputBeforeComplete ==
    \A i, j \in 1..Len(sent) :
        ~ /\ i < j
          /\ sent[i].type = COMPLETE
          /\ sent[j].type \in {STDOUT, STDERR}
          /\ sent[i].of = sent[j].of
          /\ calls[sent[i].of].type = RUN

\* the step sends a COMPLETE
SendsComplete ==
    /\ Len(sent') = Len(sent) + 1
    /\ sent'[Len(sent')].type = COMPLETE

\* C8: when the COMPLETE with code 0 of an ADD_FILE is sent, the file is there
\* with the content given; and a REMOVE_FILE of the path that arrived after
\* that COMPLETE gets code 0 and leaves no file
C8_AddThenRemove ==
    [][SendsComplete =>
          LET e == sent'[Len(sent')]
              m == e.of
              target == resolve(calls'[m].data[1])
          IN /\ (calls'[m].type = ADD_FILE /\ e.data[1] = 0) =>
                    /\ target \in DOMAIN files'
                    /\ files'[target] = calls'[m].data[2]
             /\ (/\ calls'[m].type = REMOVE_FILE
                 /\ \E a \in 1..Len(calls') :
                       /\ calls'[a].type = ADD_FILE
                       /\ calls'[a].data[1] = calls'[m].data[1]
                       /\ \E i \in Completes(a) :
                             sent[i].data[1] = 0 /\ i <= calls'[m].at) =>
                    /\ e.data[1] = 0
                    /\ target \notin DOMAIN files']_vars

\* an absolute path inside the workspace root
InWorkspace(abs) ==
    LET root == normalize(Dirname, <<>>)
    IN Len(abs) >= Len(root) /\ SubSeq(abs, 1, Len(root)) = root

Outside(filepath) == ~InWorkspace(resolve(filepath))

\* C9: an ADD_FILE or REMOVE_FILE whose path resolves outside the workspace
\* starts no write and no unlink and is reported with code 1; nothing outside
\* the workspace is made, written or deleted
C9_ContainmentFirst ==
    /\ \A q \in DOMAIN files : ~InWorkspace(q) => (q = <<"out">> /\ files[q] = "o")
    /\ <<"out">> \in DOMAIN files
    /\ \A d \in dirs : ~InWorkspace(d) => d = <<>>
    /\ \A m \in Received :
          (calls[m].type \in {ADD_FILE, REMOVE_FILE} /\ Outside(calls[m].data[1])) =>
              /\ m \notin DOMAIN writes
              /\ calls[m].pc # "unlink"
              /\ calls[m].fnOutcome \in {"threw", "rejected"}
              /\ RunTaskDone(m) =>
                    (Cardinality(Completes(m)) = 1 /\ Reports(m) = {<<1, Undefined>>})

C9_Witness ==
    \E a, b \in Received :
        /\ calls[a].type = ADD_FILE /\ Outside(calls[a].data[1]) /\ Ended(a)
        /\ calls[b].type = REMOVE_FILE /\ Outside(calls[b].data[1]) /\ Ended(b)
        /\ Reports(a) = {<<1, Undefined>>} /\ Reports(b) = {<<1, Undefined>>}

\* C10: when nothing is left to run, no session whose activeMsgCount is zero
\* is still a key of sessions
C10_EmptySessionsCollected ==
    Quiescent =>
        \A sid \in SessionIDs :
            sessions[sid] # 0 => objs[sessions[sid]].activeMsgCount # 0

\* ------------------------------------------------------ parseCommand alone
Alphabet == {SP, SQ, DQ, "a"}
Strings == UNION {[1..n -> Alphabet] : n \in 0..MaxLen}

InitParse ==
    /\ Started
    /\ limit = 0
    /\ \E cmd \in Strings : parsed = [cmd |-> cmd, done |-> FALSE, chunks |-> <<>>]

\* InteractiveSession.parseCommand(cmd)
Parse ==
    /\ ~parsed.done
    /\ parsed' = [parsed EXCEPT !.done = TRUE, !.chunks = parseCommand(parsed.cmd)]
    /\ UNCHANGED <<sessions, objs, calls, microtasks, procs, writes, files, dirs,
                   env, sent, unhandled, syncBurst, limit>>

NextParse == Parse

SpecParse == InitParse /\ [][NextParse]_vars

\* the quote that is open before character i of cmd
RECURSIVE openBefore(_, _)
openBefore(cmd, i) ==
    IF i = 1 THEN NoQuote
    ELSE LET q == openBefore(cmd, i - 1)
             c == cmd[i - 1]
         IN IF q = NoQuote THEN (IF c \in {SQ, DQ} THEN c ELSE NoQuote)
            ELSE IF c = q THEN NoQuote ELSE q

\* character i is a space outside quotes
Boundary(cmd, i) == cmd[i] = SP /\ openBefore(cmd, i) = NoQuote

\* character i is a quote that opens quoting or closes the open quote
Toggle(cmd, i) ==
    \/ openBefore(cmd, i) = NoQuote /\ cmd[i] \in {SQ, DQ}
    \/ openBefore(cmd, i) # NoQuote /\ cmd[i] = openBefore(cmd, i)

Boundaries(cmd) == {i \in 1..Len(cmd) : Boundary(cmd, i)}

\* the reference tokenizer: token k is made of the characters after k - 1
\* boundaries that are neither a boundary nor a toggle, in order
RefTokens(cmd) ==
    [k \in 1..(1 + Cardinality(Boundaries(cmd))) |->
        LET keep(i) == /\ ~Boundary(cmd, i)
                       /\ ~Toggle(cmd, i)
                       /\ Cardinality({b \in Boundaries(cmd) : b < i}) = k - 1
            at == SelectSeq([i \in 1..Len(cmd) |-> i], keep)
        IN [j \in 1..Len(at) |-> cmd[at[j]]]]

\* C11: parseCommand gives what the reference tokenizer gives, on every
\* string: one token more than there are spaces outside quotes, the toggling
\* quotes dropped, every other character kept in order
C11_ParseCommandIsReference ==
    parsed.done =>
        /\ parsed.chunks = RefTokens(parsed.cmd)
        /\ Len(parsed.chunks) = 1 + Cardinality(Boundaries(parsed.cmd))

C11_Witness ==
    /\ parsed.done
    /\ parsed.cmd = <<SQ, DQ, SP, SQ>>
    /\ parsed.chunks = << <<DQ, SP>> >>

\* C12: a process that has exited has one COMPLETE, carrying the code of its
\* 'exit' event and nothing else; a process still running has none
C12_RunReportsExitCode ==
    \A p \in DOMAIN procs :
        IF procs[p].state = "exited"
        THEN Cardinality(Completes(p)) = 1 /\ Reports(p) = {procs[p].exit}
        ELSE Completes(p) = {}

\* two processes of one session overlapped and exited with different codes
C12_Witness ==
    \E p, q \in DOMAIN procs :
        /\ p < q
        /\ procs[p].obj = procs[q].obj
        /\ procs[p].state = "exited" /\ procs[q].state = "exited"
        /\ procs[p].exit = <<1>> /\ procs[q].exit = <<0>>
        /\ \E i \in Completes(p) : i > calls[q].at

\* C13: a session refers to no process that has exited, and kill() is called
\* on no process that has exited
C13_IdleAfterExit ==
    /\ [](\A o \in DOMAIN objs :
             objs[o].subprocess # 0 => procs[objs[o].subprocess].state = "running")
    /\ [][\A p \in DOMAIN procs :
             procs'[p].killCalls # procs[p].killCalls => procs[p].state = "running"]_vars

\* -------------------------------------------------- RUN and KILL alone
InitProc ==
    /\ Started
    /\ limit = MaxRunMsgs
    /\ parsed = NoParse

NextProc ==
    \/ \E sid \in SessionIDs : ReceiveKill(sid)
    \/ \E sid \in SessionIDs, cmd \in Commands : ReceiveRun(sid, cmd)
    \/ ResumeClient
    \/ RejectClient
    \/ \E p \in 1..MaxRunMsgs, stream \in {STDOUT, STDERR} : ProcData(p, stream)
    \/ \E p \in 1..MaxRunMsgs, code \in ExitCodes \cup {NullCode} : ProcExit(p, code)

SpecProc == InitProc /\ [][NextProc]_vars

\* the processes a session object has spawned
ProcsOf(o) == {p \in DOMAIN procs : procs[p].obj = o}

\* the KILL messages that came to the session of process p after p was spawned
\* and before that session spawned another process
KillsAimedAt(p) ==
    {k \in Received :
        /\ calls[k].type = KILL
        /\ calls[k].obj = procs[p].obj
        /\ k > p
        /\ \A r \in ProcsOf(procs[p].obj) : ~(p < r /\ r < k)}

\* C14: a session refers to the last process it spawned; each KILL calls kill()
\* on the process referred to when it arrives and on no other, so an earlier
\* process is not signalled; and every process that exits has its own COMPLETE
C14_LastRunWins ==
    /\ \A o \in DOMAIN objs :
          objs[o].subprocess =
              IF ProcsOf(o) = {} THEN 0
              ELSE CHOOSE p \in ProcsOf(o) : \A r \in ProcsOf(o) : r <= p
    /\ \A p \in DOMAIN procs :
          /\ procs[p].killCalls = Cardinality(KillsAimedAt(p))
          /\ procs[p].killed => KillsAimedAt(p) # {}
          /\ procs[p].state = "exited" => Cardinality(Completes(p)) = 1

\* RUN, RUN, KILL in one session while both processes run: the second is
\* signalled, the first is not and later exits with its COMPLETE
C14_Witness ==
    \E p, q, k \in Received :
        /\ p < q /\ q < k
        /\ p \in DOMAIN procs /\ q \in DOMAIN procs
        /\ calls[k].type = KILL
        /\ procs[p].obj = procs[q].obj /\ calls[k].obj = procs[p].obj
        /\ procs[q].killed /\ procs[q].killCalls = 1
        /\ ~procs[p].killed /\ procs[p].killCalls = 0
        /\ procs[p].state = "exited"
        /\ \E i \in Completes(p) : i > calls[k].at
        /\ \E i \in Completes(q) : sent[i].data = <<NullCode>>

\* C15: a message is dispatched in the step in which it arrives, whatever is
\* still in flight: it is the next call, the earlier calls are left as they
\* stand, and the count of its session is one more than before, less the
\* COMPLETE the dispatch itself sent
C15_DispatchOnArrival ==
    [][Len(calls') # Len(calls) =>
          LET m == Len(calls')
              c == calls'[m]
          IN /\ m = Len(calls) + 1
             /\ \A j \in 1..Len(calls) : calls'[j] = calls[j]
             /\ c.obj = sessions'[c.sessionID]
             /\ c.pre = countBefore(c.sessionID)
             /\ objs'[c.obj].activeMsgCount =
                   c.pre + 1 - Cardinality({i \in 1..Len(sent') :
                                               sent'[i].type = COMPLETE /\ sent'[i].of = m})]_vars

\* a later message of the same session has completed and its call has ended
\* while an earlier one still awaits its I/O
C15_Witness ==
    \E a, b \in Received :
        /\ a < b
        /\ calls[a].sessionID = calls[b].sessionID
        /\ calls[a].pc \in {"unlink", "mkdirp", "getStorage", "getClient"}
        /\ Completes(a) = {}
        /\ Ended(b) /\ Completes(b) # {}
        /\ objs[calls[a].obj].activeMsgCount = 1

Artifacts == {m \in Received : calls[m].type = ADD_ARTIFACT}

\* C16: an ADD_ARTIFACT is reported with code 0 only when the data file has
\* been written whole and the descriptor after it; the descriptor is never
\* written before the data; a task whose client or stream failed writes no
\* descriptor and is reported with code 1. When it is the only ADD_ARTIFACT,
\* both files are there as the COMPLETE with code 0 is sent.
C16_ArtifactWholeBeforeSuccess ==
    /\ [](\A m \in Artifacts :
             /\ (\E r \in Reports(m) : r[1] = 0) => calls[m].trail = <<"data", "init">>
             /\ calls[m].trail \in {<<>>, <<"data">>, <<"data", "init">>}
             /\ calls[m].fnOutcome = "rejected" =>
                   /\ calls[m].trail \in {<<>>, <<"data">>}
                   /\ RunTaskDone(m) => Reports(m) = {<<1, Undefined>>})
    /\ [][SendsComplete =>
             LET e == sent'[Len(sent')]
                 m == e.of
             IN (Artifacts = {m} /\ e.data[1] = 0) =>
                   /\ resolve(dataPath(calls[m].data[1])) \in DOMAIN files'
                   /\ files'[resolve(dataPath(calls[m].data[1]))] = "bytes"
                   /\ resolve(initPath(calls[m].data[1])) \in DOMAIN files'
                   /\ files'[resolve(initPath(calls[m].data[1]))] = initFile(calls[m].data[1])]_vars

\* one ADD_ARTIFACT reported with code 0, another whose stream failed
C16_Witness ==
    \E a, b \in Artifacts :
        /\ Reports(a) = {<<0, Undefined>>}
        /\ calls[b].fnOutcome = "rejected" /\ calls[b].trail = <<>>
        /\ resolve(dataPath(calls[b].data[1])) \in DOMAIN files
        /\ Reports(b) = {<<1, Undefined>>}

\* the messages a step is about: the one received, the one whose promise job
\* ran, the one whose I/O finished, the one whose process had an event
StepMsgs ==
    {m \in 1..Len(calls') :
        \/ m > Len(calls)
        \/ m <= Len(calls) /\ calls'[m] # calls[m]
        \/ m \in DOMAIN procs /\ procs'[m] # procs[m]
        \/ m \in DOMAIN writes /\ writes'[m] # writes[m]
        \/ /\ Len(calls') = Len(calls)
           /\ microtasks # <<>>
           /\ microtasks' # microtasks
           /\ Head(microtasks).m = m}

StepSessions == {calls'[m].sessionID : m \in StepMsgs}

\* C17: a step is about one session id; the key, the count and the process
\* reference of every other id stay as they are; what the step sends carries
\* that id, which is the id of the message it answers
C17_SessionsApart ==
    /\ [](\A i \in 1..Len(sent) : sent[i].sessionID = calls[sent[i].of].sessionID)
    /\ [][/\ Cardinality(StepSessions) <= 1
          /\ \A t \in SessionIDs \ StepSessions :
                /\ sessions'[t] = sessions[t]
                /\ \A o \in DOMAIN objs' :
                      objs'[o].sessionID = t => (o \in DOMAIN objs /\ objs'[o] = objs[o])
          /\ \A i \in (Len(sent) + 1)..Len(sent') :
                sent'[i].sessionID \in StepSessions]_vars

\* a process of s2 has sent output and exited while s1 keeps its own process
\* and count
C17_Witness ==
    \E p, q \in DOMAIN procs :
        /\ calls[p].sessionID = "s1" /\ calls[q].sessionID = "s2"
        /\ procs[p].state = "running" /\ procs[q].state = "exited"
        /\ \E i \in 1..Len(sent) : sent[i].type = STDOUT /\ sent[i].of = q
        /\ objs[procs[p].obj].activeMsgCount = 1
        /\ objs[procs[q].obj].activeMsgCount = 0

\* C18: when the continuation of InteractiveClient.onMessage reads
\* this.sessions[sessionID].activeMsgCount the session is in the mapping: no
\* call ends with the TypeError of reading a property of undefined
C18_SessionPresentAtEviction ==
    \A m \in Received : <<m, "TypeError">> \notin unhandled

\* the messages session object o has accepted, and the COMPLETE messages it sent
Accepted(o) == {m \in Received : calls[m].obj = o}

Completed(o) ==
    {i \in 1..Len(sent) : sent[i].type = COMPLETE /\ calls[sent[i].of].obj = o}

\* C19: the count of a session object is what it has accepted less the COMPLETE
\* messages it has sent, and is not negative; a step changes it by one up when
\* the object accepts a message or by one down together with one COMPLETE
C19_CountIsInFlight ==
    /\ [](\A o \in DOMAIN objs :
            /\ objs[o].activeMsgCount = Cardinality(Accepted(o)) - Cardinality(Completed(o))
            /\ objs[o].activeMsgCount >= 0)
    /\ [][\A o \in DOMAIN objs :
            LET before == objs[o].activeMsgCount
                after == objs'[o].activeMsgCount
                arrived == Len(calls') > Len(calls) /\ calls'[Len(calls')].obj = o
                completes == Cardinality({i \in (Len(sent) + 1)..Len(sent') :
                                 sent'[i].type = COMPLETE /\ calls'[sent'[i].of].obj = o})
            IN /\ completes <= 1
               /\ after = before + (IF arrived THEN 1 ELSE 0) - completes]_vars

\* a session object that accepted two messages, completed one and still counts
\* the other
C19_Witness ==
    \E o \in DOMAIN objs :
        /\ Cardinality(Accepted(o)) = 2
        /\ Cardinality(Completed(o)) = 1
        /\ objs[o].activeMsgCount = 1

\* the processes of session object o that have not exited
Running(o) == {p \in ProcsOf(o) : procs[p].state = "running"}

\* C20: a session object with a process that has not exited counts at least
\* its running processes and is the one the mapping holds for its id, and a
\* KILL that arrives for that id is dispatched to that object
C20_RunningSessionKept ==
    /\ [](\A o \in DOMAIN objs :
            Running(o) # {} =>
                /\ objs[o].activeMsgCount >= Cardinality(Running(o))
                /\ sessions[objs[o].sessionID] = o)
    /\ [][\A o \in DOMAIN objs :
            (/\ Running(o) # {}
             /\ Len(calls') > Len(calls)
             /\ calls'[Len(calls')].type = KILL
             /\ calls'[Len(calls')].sessionID = objs[o].sessionID)
            => calls'[Len(calls')].obj = o]_vars

\* the eviction check of the RUN message has run while its process was running,
\* the session stayed, and a later KILL was dispatched to it and signalled
\* the process
C20_Witness ==
    \E p \in DOMAIN procs, k \in Received :
        /\ calls[p].pc = "done"
        /\ procs[p].state = "running"
        /\ k > p
        /\ calls[k].type = KILL
        /\ calls[k].pc = "queued"
        /\ syncBurst
        /\ calls[k].obj = procs[p].obj
        /\ procs[p].killed
        /\ sessions[calls[p].sessionID] = procs[p].obj

====
